---- MODULE Spec2Model ----
(***************************************************************************)
(* The LC-3 virtual machine of src/src/index.ts as a state machine.        *)
(*                                                                         *)
(* JavaScript numbers are modelled as integers; the two non-numbers the    *)
(* code can produce (undefined from an out-of-range typed-array read, NaN  *)
(* from ''.charCodeAt(0)) are two integers outside every range the code    *)
(* computes.  A store into a Uint16Array is ToUint16; an out-of-range      *)
(* store is dropped; an out-of-range read is undefined.                    *)
(***************************************************************************)
EXTENDS Integers, Sequences, FiniteSets, TLC

VARIABLES image, kbd, memory, registers, running, out, proc, steps, lastInstr, lastPC, link, flagged, sx

vars == <<image, kbd, memory, registers, running, out, proc, steps, lastInstr, lastPC, link, flagged, sx>>

(* ------------------------------ constants ------------------------------ *)

MEMORY_SIZE == 65536

R_R0 == 0
R_R7 == 7
R_PC == 8
R_COND == 9
R_COUNT == 10

OP_BR == 0
OP_ADD == 1
OP_LD == 2
OP_ST == 3
OP_JSR == 4
OP_AND == 5
OP_LDR == 6
OP_STR == 7
OP_RTI == 8
OP_NOT == 9
OP_LDI == 10
OP_STI == 11
OP_JMP == 12
OP_RES == 13
OP_LEA == 14
OP_TRAP == 15

FL_POS == 1
FL_ZRO == 2
FL_NEG == 4

MR_KBSR == 65024
MR_KBDR == 65026

TRAP_GETC == 32
TRAP_OUT == 33
TRAP_PUTS == 34
TRAP_IN == 35
TRAP_PUTSP == 36
TRAP_HALT == 37

PC_START == 12288
SIGN_BIT == 32768

\* The JavaScript values that are not numbers.
undefined == 0 - 100000
NaN == 0 - 100001

(* ------------------------- JavaScript arithmetic ------------------------ *)

RECURSIVE Pow2(_)
Pow2(n) == IF n = 0 THEN 1 ELSE 2 * Pow2(n - 1)

\* a & b on two's-complement integers (the operands the code uses fit int32).
RECURSIVE BitAnd(_, _)
BitAnd(a, b) ==
  IF a = 0 \/ b = 0 THEN 0
  ELSE IF a = -1 THEN b
  ELSE IF b = -1 THEN a
  ELSE ((a % 2) * (b % 2)) + 2 * BitAnd(a \div 2, b \div 2)

\* a ^ b on two's-complement integers.
RECURSIVE BitXor(_, _)
BitXor(a, b) ==
  IF a = 0 THEN b
  ELSE IF b = 0 THEN a
  ELSE IF a = -1 THEN (0 - b) - 1
  ELSE IF b = -1 THEN (0 - a) - 1
  ELSE (((a % 2) + (b % 2)) % 2) + 2 * BitXor(a \div 2, b \div 2)

\* ~a
BitNot(a) == (0 - a) - 1

\* a >> n for a >= 0
Shr(a, n) == a \div Pow2(n)

\* The conversion a store into a Uint16Array applies.
ToUint16(v) == IF v = undefined \/ v = NaN THEN 0 ELSE v % MEMORY_SIZE

\* JavaScript truthiness of a number.
Truthy(v) == v # 0 /\ v # NaN /\ v # undefined

(* -------------------------------- memory -------------------------------- *)

\* memory is the Uint16Array of 65536 words, kept as the function of its
\* non-zero cells; every other cell holds 0.
IsIndex(a) == a \in 0 .. (MEMORY_SIZE - 1)

MemGet(mem, a) ==
  IF ~IsIndex(a) THEN undefined
  ELSE IF a \in DOMAIN mem THEN mem[a] ELSE 0

MemSet(mem, a, v) ==
  IF ~IsIndex(a) THEN mem
  ELSE LET w == ToUint16(v) IN
    IF w = 0 THEN [x \in (DOMAIN mem) \ {a} |-> mem[x]]
    ELSE [x \in (DOMAIN mem) \cup {a} |-> IF x = a THEN w ELSE mem[x]]

EmptyMemory == [x \in {} |-> 0]

RegSet(s, r, v) == [s EXCEPT !.registers[r] = ToUint16(v)]

\* The interpreter is still executing the current handler.
Live(s) == s.proc = "loop"

(* --------------------------- arithmetic primitives ---------------------- *)

signExtend(x, bitCount) ==
  LET m == Pow2(bitCount - 1)
      x1 == BitAnd(x, Pow2(bitCount) - 1)
  IN BitXor(x1, m) - m

\* updateFlags without its zero test.
updateFlagsNoZero(s, r) ==
  IF BitAnd(s.registers[r], SIGN_BIT) # 0 THEN [s EXCEPT !.registers[R_COND] = FL_NEG]
  ELSE [s EXCEPT !.registers[R_COND] = FL_POS]

updateFlags(s, r) ==
  IF s.registers[r] = 0 THEN [s EXCEPT !.registers[R_COND] = FL_ZRO]
  ELSE IF BitAnd(s.registers[r], SIGN_BIT) # 0 THEN [s EXCEPT !.registers[R_COND] = FL_NEG]
  ELSE [s EXCEPT !.registers[R_COND] = FL_POS]

(* ------------------------------- host input ----------------------------- *)

\* A prompt that takes any key for a yes.
keyInYNAlways(k) == TRUE

\* keyInYN: true exactly for the key y or Y.
keyInYN(k) == k = 121 \/ k = 89

\* String.trim on a one-key string: a whitespace key leaves the empty string.
IsBlank(k) == k \in {9, 10, 13, 32}

\* toLowerCase() === 'q'
IsQ(k) == k = 113 \/ k = 81

\* getChar: keyIn waits for one key of the host; on q, keyInYN waits for a
\* second one and a yes ends the process with code 0.  With no key left the
\* call never returns (proc "blocked").  Result: the state and the value.
getChar(s) ==
  IF s.kbd = <<>> THEN [s |-> [s EXCEPT !.proc = "blocked"], v |-> undefined]
  ELSE LET input == Head(s.kbd)
           s1 == [s EXCEPT !.kbd = Tail(s.kbd)]
           code == IF IsBlank(input) THEN NaN ELSE input
       IN IF IsQ(input)
          THEN IF s1.kbd = <<>> THEN [s |-> [s1 EXCEPT !.proc = "blocked"], v |-> undefined]
               ELSE LET s2 == [s1 EXCEPT !.kbd = Tail(s1.kbd)] IN
                    IF keyInYN(Head(s1.kbd))
                    THEN [s |-> [s2 EXCEPT !.proc = "quit"], v |-> undefined]
                    ELSE [s |-> s2, v |-> code]
          ELSE [s |-> s1, v |-> code]

(* --------------------------- memory interface --------------------------- *)

memWrite(s, address, val) == [s EXCEPT !.memory = MemSet(s.memory, address, val)]

\* memRead that leaves the key out of KBDR.
memReadNoData(s, address) ==
  IF address = MR_KBSR
  THEN LET g == getChar(s) IN
       IF ~Live(g.s) THEN [s |-> g.s, v |-> undefined]
       ELSE LET m1 == IF Truthy(g.v)
                      THEN MemSet(g.s.memory, MR_KBSR, Pow2(15))
                      ELSE MemSet(g.s.memory, MR_KBSR, 0)
            IN [s |-> [g.s EXCEPT !.memory = m1], v |-> MemGet(m1, address)]
  ELSE [s |-> s, v |-> MemGet(s.memory, address)]

memRead(s, address) ==
  IF address = MR_KBSR
  THEN LET g == getChar(s) IN
       IF ~Live(g.s) THEN [s |-> g.s, v |-> undefined]
       ELSE LET m1 == IF Truthy(g.v)
                      THEN MemSet(MemSet(g.s.memory, MR_KBSR, Pow2(15)), MR_KBDR, g.v)
                      ELSE MemSet(g.s.memory, MR_KBSR, 0)
            IN [s |-> [g.s EXCEPT !.memory = m1], v |-> MemGet(m1, address)]
  ELSE [s |-> s, v |-> MemGet(s.memory, address)]

(* ----------------------------- instructions ----------------------------- *)

\* add taking the immediate field without extending its sign.
addNoSext(s, instr) ==
  LET r0 == BitAnd(Shr(instr, 9), 7)
      r1 == BitAnd(Shr(instr, 6), 7)
      immFlag == BitAnd(Shr(instr, 5), 1)
      imm5 == BitAnd(instr, 31)
      r2 == BitAnd(instr, 7)
      s1 == IF immFlag # 0
            THEN RegSet(s, r0, s.registers[r1] + imm5)
            ELSE RegSet(s, r0, s.registers[r1] + s.registers[r2])
  IN updateFlags(s1, r0)

add(s, instr) ==
  LET r0 == BitAnd(Shr(instr, 9), 7)
      r1 == BitAnd(Shr(instr, 6), 7)
      immFlag == BitAnd(Shr(instr, 5), 1)
      imm5 == signExtend(BitAnd(instr, 31), 5)
      r2 == BitAnd(instr, 7)
      s1 == IF immFlag # 0
            THEN RegSet(s, r0, s.registers[r1] + imm5)
            ELSE RegSet(s, r0, s.registers[r1] + s.registers[r2])
  IN updateFlags(s1, r0)

loadIndirect(s, instr) ==
  LET r0 == BitAnd(Shr(instr, 9), 7)
      pcOffset == signExtend(BitAnd(instr, 511), 9)
      inner == memRead(s, s.registers[R_PC] + pcOffset)
      outer == memRead(inner.s, inner.v)
  IN IF ~Live(inner.s) THEN inner.s
     ELSE IF ~Live(outer.s) THEN outer.s
     ELSE updateFlags(RegSet(outer.s, r0, outer.v), r0)

\* abort that returns to the loop.
abortReturns(s) == s

abort(s) == [s EXCEPT !.proc = "abort"]

bitwiseAnd(s, instr) ==
  LET r0 == BitAnd(Shr(instr, 9), 7)
      r1 == BitAnd(Shr(instr, 6), 7)
      immFlag == BitAnd(Shr(instr, 5), 1)
      imm5 == signExtend(BitAnd(instr, 31), 5)
      r2 == BitAnd(instr, 7)
      s1 == IF immFlag # 0
            THEN RegSet(s, r0, BitAnd(s.registers[r1], imm5))
            ELSE RegSet(s, r0, BitAnd(s.registers[r1], s.registers[r2]))
  IN updateFlags(s1, r0)

bitwiseNot(s, instr) ==
  LET r0 == BitAnd(Shr(instr, 9), 7)
      r1 == BitAnd(Shr(instr, 6), 7)
  IN updateFlags(RegSet(s, r0, BitNot(s.registers[r1])), r0)

\* branch that ignores the condition codes.
branchAlways(s, instr) ==
  LET pcOffset == signExtend(BitAnd(instr, 511), 9)
  IN RegSet(s, R_PC, s.registers[R_PC] + pcOffset)

branch(s, instr) ==
  LET pcOffset == signExtend(BitAnd(instr, 511), 9)
      condFlag == BitAnd(Shr(instr, 9), 7)
  IN IF BitAnd(condFlag, s.registers[R_COND]) # 0
     THEN RegSet(s, R_PC, s.registers[R_PC] + pcOffset)
     ELSE s

jump(s, instr) ==
  LET r1 == BitAnd(Shr(instr, 6), 7)
  IN RegSet(s, R_PC, s.registers[r1])

\* jumpRegister that sets the flags from the link it stored.
jumpRegisterFlags(s, instr) ==
  LET r1 == BitAnd(Shr(instr, 6), 7)
      longPCOffset == signExtend(BitAnd(instr, 2047), 11)
      longFlag == BitAnd(Shr(instr, 11), 1)
      s1 == updateFlags(RegSet(s, R_R7, s.registers[R_PC]), R_R7)
  IN IF longFlag # 0
     THEN RegSet(s1, R_PC, s1.registers[R_PC] + longPCOffset)
     ELSE RegSet(s1, R_PC, s1.registers[r1])

\* jumpRegister that reads the base register before it stores the link.
jumpRegisterEarly(s, instr) ==
  LET r1 == BitAnd(Shr(instr, 6), 7)
      longPCOffset == signExtend(BitAnd(instr, 2047), 11)
      longFlag == BitAnd(Shr(instr, 11), 1)
      target == s.registers[r1]
      s1 == RegSet(s, R_R7, s.registers[R_PC])
  IN IF longFlag # 0
     THEN RegSet(s1, R_PC, s1.registers[R_PC] + longPCOffset)
     ELSE RegSet(s1, R_PC, target)

\* jumpRegister that stores the link after the jump.
jumpRegisterLate(s, instr) ==
  LET r1 == BitAnd(Shr(instr, 6), 7)
      longPCOffset == signExtend(BitAnd(instr, 2047), 11)
      longFlag == BitAnd(Shr(instr, 11), 1)
      s1 == IF longFlag # 0
            THEN RegSet(s, R_PC, s.registers[R_PC] + longPCOffset)
            ELSE RegSet(s, R_PC, s.registers[r1])
  IN RegSet(s1, R_R7, s1.registers[R_PC])

jumpRegister(s, instr) ==
  LET r1 == BitAnd(Shr(instr, 6), 7)
      longPCOffset == signExtend(BitAnd(instr, 2047), 11)
      longFlag == BitAnd(Shr(instr, 11), 1)
      s1 == RegSet(s, R_R7, s.registers[R_PC])
  IN IF longFlag # 0
     THEN RegSet(s1, R_PC, s1.registers[R_PC] + longPCOffset)
     ELSE RegSet(s1, R_PC, s1.registers[r1])

load(s, instr) ==
  LET r0 == BitAnd(Shr(instr, 9), 7)
      pcOffset == signExtend(BitAnd(instr, 511), 9)
      rd == memRead(s, s.registers[R_PC] + pcOffset)
  IN IF ~Live(rd.s) THEN rd.s
     ELSE updateFlags(RegSet(rd.s, r0, rd.v), r0)

loadRegister(s, instr) ==
  LET r0 == BitAnd(Shr(instr, 9), 7)
      r1 == BitAnd(Shr(instr, 6), 7)
      offset == signExtend(BitAnd(instr, 63), 6)
      rd == memRead(s, s.registers[r1] + offset)
  IN IF ~Live(rd.s) THEN rd.s
     ELSE updateFlags(RegSet(rd.s, r0, rd.v), r0)

loadEffectiveAddress(s, instr) ==
  LET r0 == BitAnd(Shr(instr, 9), 7)
      pcOffset == signExtend(BitAnd(instr, 511), 9)
  IN updateFlags(RegSet(s, r0, s.registers[R_PC] + pcOffset), r0)

store(s, instr) ==
  LET r0 == BitAnd(Shr(instr, 9), 7)
      pcOffset == signExtend(BitAnd(instr, 511), 9)
  IN memWrite(s, s.registers[R_PC] + pcOffset, s.registers[r0])

storeIndirect(s, instr) ==
  LET r0 == BitAnd(Shr(instr, 9), 7)
      pcOffset == signExtend(BitAnd(instr, 511), 9)
      rd == memRead(s, s.registers[R_PC] + pcOffset)
  IN IF ~Live(rd.s) THEN rd.s
     ELSE memWrite(rd.s, rd.v, rd.s.registers[r0])

storeRegister(s, instr) ==
  LET r0 == BitAnd(Shr(instr, 9), 7)
      r1 == BitAnd(Shr(instr, 6), 7)
      offset == signExtend(BitAnd(instr, 63), 6)
  IN memWrite(s, s.registers[r1] + offset, s.registers[r0])

(* ------------------------------ host output ----------------------------- *)

Cont(b) == b \in 128 .. 191

\* U+FFFD as UTF-8
Replacement == <<239, 191, 189>>

Drop(seq, n) == SubSeq(seq, n + 1, Len(seq))

\* Buffer.toString('utf8') followed by the UTF-8 encoding of the write:
\* well-formed sequences pass, every ill-formed maximal subpart becomes
\* U+FFFD.
RECURSIVE Utf8(_)
Utf8(b) ==
  IF b = <<>> THEN <<>>
  ELSE LET h == b[1]
           lo2 == IF h = 224 THEN 160 ELSE IF h = 240 THEN 144 ELSE 128
           hi2 == IF h = 237 THEN 159 ELSE IF h = 244 THEN 143 ELSE 191
           need == IF h \in 194 .. 223 THEN 1
                   ELSE IF h \in 224 .. 239 THEN 2
                   ELSE IF h \in 240 .. 244 THEN 3 ELSE 0
           ok2 == Len(b) >= 2 /\ b[2] \in lo2 .. hi2
           ok3 == ok2 /\ Len(b) >= 3 /\ Cont(b[3])
           ok4 == ok3 /\ Len(b) >= 4 /\ Cont(b[4])
           good == IF h < 128 THEN 1
                   ELSE IF need = 1 /\ ok2 THEN 2
                   ELSE IF need = 2 /\ ok3 THEN 3
                   ELSE IF need = 3 /\ ok4 THEN 4 ELSE 0
           bad == IF need >= 3 /\ ok3 THEN 3
                  ELSE IF need >= 2 /\ ok2 THEN 2 ELSE 1
       IN IF good > 0 THEN SubSeq(b, 1, good) \o Utf8(Drop(b, good))
          ELSE Replacement \o Utf8(Drop(b, bad))

\* Buffer.from(number[]): each element as a byte.
ToBytes(data) == [i \in 1 .. Len(data) |-> ToUint16(data[i]) % 256]

putBuf(s, data) == [s EXCEPT !.out = s.out \o Utf8(ToBytes(data))]

\* console.log of an ASCII string: its bytes and a newline.
HaltNotice == <<72, 65, 76, 84, 10>>
InPrompt == <<69, 110, 116, 101, 114, 32, 97, 32, 99, 104, 97, 114, 97, 99, 116, 101, 114, 58, 32, 10>>

\* The PUTS loop: the words from addr up to the first zero word.  Past the last
\* cell every read is undefined, which is not 0: the loop never ends and the
\* buffer grows until the process dies (oom).
RECURSIVE ScanWords(_, _)
ScanWords(mem, addr) ==
  IF ~IsIndex(addr) THEN [buf |-> <<>>, oom |-> TRUE]
  ELSE IF MemGet(mem, addr) = 0 THEN [buf |-> <<>>, oom |-> FALSE]
  ELSE LET rest == ScanWords(mem, addr + 1) IN
       [buf |-> <<MemGet(mem, addr)>> \o rest.buf, oom |-> rest.oom]

\* The PUTSP loop: low byte, then high byte when it is not zero.
RECURSIVE ScanBytes(_, _)
ScanBytes(mem, addr) ==
  IF ~IsIndex(addr) THEN [buf |-> <<>>, oom |-> TRUE]
  ELSE IF MemGet(mem, addr) = 0 THEN [buf |-> <<>>, oom |-> FALSE]
  ELSE LET rest == ScanBytes(mem, addr + 1)
           char1 == BitAnd(MemGet(mem, addr), 255)
           char2 == Shr(MemGet(mem, addr), 8)
       IN [buf |-> (IF char2 # 0 THEN <<char1, char2>> ELSE <<char1>>) \o rest.buf,
           oom |-> rest.oom]

\* trapHandler that saves the return address in R7 first, as LC-3 hardware does.
trapHandlerLinks(s, instr) ==
  LET vec == BitAnd(instr, 255)
      l == RegSet(s, R_R7, s.registers[R_PC])
  IN
  CASE vec = TRAP_GETC ->
         LET g == getChar(l) IN
         IF ~Live(g.s) THEN g.s ELSE RegSet(g.s, R_R0, g.v)
    [] vec = TRAP_OUT -> putBuf(l, <<l.registers[R_R0]>>)
    [] vec = TRAP_PUTS ->
         LET sc == ScanWords(l.memory, l.registers[R_R0]) IN
         IF sc.oom THEN [l EXCEPT !.proc = "oom"] ELSE putBuf(l, sc.buf)
    [] vec = TRAP_IN ->
         LET s1 == [l EXCEPT !.out = l.out \o InPrompt]
             g == getChar(s1)
         IN IF ~Live(g.s) THEN g.s ELSE RegSet(g.s, R_R0, g.v)
    [] vec = TRAP_PUTSP ->
         LET sc == ScanBytes(l.memory, l.registers[R_R0]) IN
         IF sc.oom THEN [l EXCEPT !.proc = "oom"] ELSE putBuf(l, sc.buf)
    [] vec = TRAP_HALT -> [l EXCEPT !.out = l.out \o HaltNotice, !.running = 0]
    [] OTHER -> l

\* trapHandler that aborts on a vector it does not know.
trapHandlerStrict(s, instr) ==
  LET vec == BitAnd(instr, 255) IN
  CASE vec = TRAP_GETC ->
         LET g == getChar(s) IN
         IF ~Live(g.s) THEN g.s ELSE RegSet(g.s, R_R0, g.v)
    [] vec = TRAP_OUT -> putBuf(s, <<s.registers[R_R0]>>)
    [] vec = TRAP_PUTS ->
         LET sc == ScanWords(s.memory, s.registers[R_R0]) IN
         IF sc.oom THEN [s EXCEPT !.proc = "oom"] ELSE putBuf(s, sc.buf)
    [] vec = TRAP_IN ->
         LET s1 == [s EXCEPT !.out = s.out \o InPrompt]
             g == getChar(s1)
         IN IF ~Live(g.s) THEN g.s ELSE RegSet(g.s, R_R0, g.v)
    [] vec = TRAP_PUTSP ->
         LET sc == ScanBytes(s.memory, s.registers[R_R0]) IN
         IF sc.oom THEN [s EXCEPT !.proc = "oom"] ELSE putBuf(s, sc.buf)
    [] vec = TRAP_HALT -> [s EXCEPT !.out = s.out \o HaltNotice, !.running = 0]
    [] OTHER -> abort(s)

trapHandler(s, instr) ==
  LET vec == BitAnd(instr, 255) IN
  CASE vec = TRAP_GETC ->
         LET g == getChar(s) IN
         IF ~Live(g.s) THEN g.s ELSE RegSet(g.s, R_R0, g.v)
    [] vec = TRAP_OUT -> putBuf(s, <<s.registers[R_R0]>>)
    [] vec = TRAP_PUTS ->
         LET sc == ScanWords(s.memory, s.registers[R_R0]) IN
         IF sc.oom THEN [s EXCEPT !.proc = "oom"] ELSE putBuf(s, sc.buf)
    [] vec = TRAP_IN ->
         LET s1 == [s EXCEPT !.out = s.out \o InPrompt]
             g == getChar(s1)
         IN IF ~Live(g.s) THEN g.s ELSE RegSet(g.s, R_R0, g.v)
    [] vec = TRAP_PUTSP ->
         LET sc == ScanBytes(s.memory, s.registers[R_R0]) IN
         IF sc.oom THEN [s EXCEPT !.proc = "oom"] ELSE putBuf(s, sc.buf)
    [] vec = TRAP_HALT -> [s EXCEPT !.out = s.out \o HaltNotice, !.running = 0]
    [] OTHER -> s

(* ------------------------------ the fetch loop -------------------------- *)

execute(s, instr) ==
  LET op == Shr(instr, 12) IN
  CASE op = OP_ADD -> add(s, instr)
    [] op = OP_AND -> bitwiseAnd(s, instr)
    [] op = OP_NOT -> bitwiseNot(s, instr)
    [] op = OP_BR -> branch(s, instr)
    [] op = OP_JMP -> jump(s, instr)
    [] op = OP_JSR -> jumpRegister(s, instr)
    [] op = OP_LD -> load(s, instr)
    [] op = OP_LDI -> loadIndirect(s, instr)
    [] op = OP_LDR -> loadRegister(s, instr)
    [] op = OP_LEA -> loadEffectiveAddress(s, instr)
    [] op = OP_ST -> store(s, instr)
    [] op = OP_STI -> storeIndirect(s, instr)
    [] op = OP_STR -> storeRegister(s, instr)
    [] op = OP_TRAP -> trapHandler(s, instr)
    [] OTHER -> abort(s)

\* The loop test that follows an iteration: with running cleared main returns
\* and the process ends with code 0.
\* A loop that never tests running.
loopTestNever(s) == s

loopTest(s) == IF Live(s) /\ s.running = 0 THEN [s EXCEPT !.proc = "done"] ELSE s

\* An iteration that increments PC after the instruction has executed.
iterationLate(s) ==
  LET f == memRead(s, s.registers[R_PC]) IN
  IF ~Live(f.s) THEN [s |-> f.s, instr |-> undefined]
  ELSE LET e == execute(f.s, f.v)
           s1 == RegSet(e, R_PC, e.registers[R_PC] + 1)
       IN [s |-> loopTest(s1), instr |-> f.v]

\* One iteration of the while loop of main: fetch, increment PC, dispatch.
iteration(s) ==
  LET f == memRead(s, s.registers[R_PC]) IN
  IF ~Live(f.s) THEN [s |-> f.s, instr |-> undefined]
  ELSE LET s1 == RegSet(f.s, R_PC, f.s.registers[R_PC] + 1)
       IN [s |-> loopTest(execute(s1, f.v)), instr |-> f.v]

(* ------------------------------ image loader ---------------------------- *)

\* What Buffer.readUInt16BE throws on an offset past length - 2.
RangeError == 0 - 100002

\* buf.readUInt16BE(offset); buf is a sequence of bytes, offset counts from 0.
readUInt16BE(buf, offset) ==
  IF offset + 2 > Len(buf) THEN RangeError
  ELSE buf[offset + 1] * 256 + buf[offset + 2]

\* The loop storing each word one cell too high.
RECURSIVE readLoopShifted(_, _, _, _)
readLoopShifted(mem, img, origin, pos) ==
  IF (pos + 1) * 2 < Len(img)
  THEN LET w == readUInt16BE(img, (pos + 1) * 2) IN
       IF w = RangeError THEN [memory |-> mem, threw |-> TRUE]
       ELSE readLoopShifted(MemSet(mem, origin + pos + 1, w), img, origin, pos + 1)
  ELSE [memory |-> mem, threw |-> FALSE]

\* The while loop of readImage from position pos on.
RECURSIVE readLoop(_, _, _, _)
readLoop(mem, img, origin, pos) ==
  IF (pos + 1) * 2 < Len(img)
  THEN LET w == readUInt16BE(img, (pos + 1) * 2) IN
       IF w = RangeError THEN [memory |-> mem, threw |-> TRUE]
       ELSE readLoop(MemSet(mem, origin + pos, w), img, origin, pos + 1)
  ELSE [memory |-> mem, threw |-> FALSE]

\* readImage; an uncaught exception ends the process before the loop starts.
readImage(s, img) ==
  LET origin == readUInt16BE(img, 0) IN
  IF origin = RangeError THEN [s EXCEPT !.proc = "throw"]
  ELSE LET r == readLoop(s.memory, img, origin, 0) IN
       [s EXCEPT !.memory = r.memory,
                 !.proc = IF r.threw THEN "throw" ELSE "loop"]

\* The exit code of a process that has ended.
ExitCode(p) ==
  CASE p = "done" -> 0
    [] p = "quit" -> 0
    [] p = "abort" -> 255
    [] p = "throw" -> 1
    [] p = "oom" -> 134      \* V8 aborts the process
    [] OTHER -> undefined

(* --------------------------------- inputs ------------------------------- *)

MaxProgLen == 2
MaxImageWords == 2
MaxKeys == 2
MaxSteps == 6

RECURSIVE SeqsUpTo(_, _)
SeqsUpTo(S, n) ==
  IF n = 0 THEN {<<>>}
  ELSE LET shorter == SeqsUpTo(S, n - 1) IN
       shorter \cup {Append(q, x) : q \in {r \in shorter : Len(r) = n - 1}, x \in S}

\* The bytes of an object file: big-endian origin, then big-endian words.
RECURSIVE WordBytes(_)
WordBytes(ws) ==
  IF ws = <<>> THEN <<>>
  ELSE <<Head(ws) \div 256, Head(ws) % 256>> \o WordBytes(Tail(ws))

Obj(origin, ws) == WordBytes(<<origin>> \o ws)

\* Instruction words the short programs are built from.
ProgWords ==
  { 0,      \* BR (never taken)
    3585,   \* 0x0E01 BRnzp #1
    1026,   \* 0x0402 BRz #2
    4131,   \* 0x1023 ADD R0,R0,#3
    4735,   \* 0x127F ADD R1,R1,#-1
    4673,   \* 0x1241 ADD R1,R1,R1
    21183,  \* 0x52BF AND R1,R2,#-1
    37503,  \* 0x927F NOT R1,R1
    8703,   \* 0x21FF LD R0,#-1
    41473,  \* 0xA201 LDI R1,#1
    24641,  \* 0x6041 LDR R0,R1,#1
    57855,  \* 0xE1FF LEA R0,#-1
    12801,  \* 0x3201 ST R1,#1
    45569,  \* 0xB201 STI R1,#1
    29249,  \* 0x7241 STR R1,R1,#1
    18433,  \* 0x4801 JSR #1
    16832,  \* 0x41C0 JSRR R7
    49600,  \* 0xC1C0 RET
    32768,  \* 0x8000 RTI
    53248,  \* 0xD000 RES
    61472,  \* 0xF020 GETC
    61473,  \* 0xF021 OUT
    61474,  \* 0xF022 PUTS
    61477,  \* 0xF025 HALT
    61695   \* 0xF0FF TRAP with an unused vector
  }

ShortPrograms == SeqsUpTo(ProgWords, MaxProgLen)

\* Longer programs for the cases two instructions cannot reach.
ScenarioPrograms ==
  { \* R1 = 0xFFFF; R2 = 0x3003; M[0] = R2; LDR R3,R1,#1 (address 0x10000); HALT
    <<4735, 58369, 29696, 26177, 61477>>,
    \* R1 = 0xFFFF; LD R2,#2; STR R2,R1,#0; JMP R1; data: ST R1,#-1, run at 0xFFFF
    <<4735, 9218, 29760, 49216, 13311>>,
    \* ADD R0,R0,#3; NOT R2,R1; BRn #1; HALT; HALT
    <<4131, 38015, 2049, 61477, 61477>>,
    \* R1 = 0xFFFF; M[0xFFFF] = R1; R0 = R1; PUTS from the last cell
    <<4735, 29248, 4192, 61474>>,
    \* R1 = 0xFFFF; LD R2,#2; STR R2,R1,#0; JMP R1; data: STI R1,#-1, run at 0xFFFF
    <<4735, 9218, 29760, 49216, 46079>>,
    \* R1 = 0xFFFF; R2 = 0x3003; AND R3,R2,#6; AND R2,R2,R1; NOT R2,R2; HALT
    <<4735, 58369, 22182, 21633, 38079, 61477>>,
    \* R1 = 0xFFFF; LD R2,#2; STR R2,R1,#0; JMP R1; data: BRnzp #1, run at 0xFFFF
    <<4735, 9218, 29760, 49216, 3585>>,
    \* the same with BRnzp #-1 at 0xFFFF
    <<4735, 9218, 29760, 49216, 4095>>,
    \* the same with a TRAP of the unused vector 0xFF at 0xFFFF
    <<4735, 9218, 29760, 49216, 61695>>,
    \* JSR #0 (R7 = 0x3001); OUT; HALT
    <<18432, 61473, 61477>>,
    \* LEA R0,#1; PUTSP of the words from 0x3002 (0xF025, then 0); HALT
    <<57345, 61476, 61477>>,
    \* LEA R0,#2; PUTS; HALT; the string "Hi"
    <<57346, 61474, 61477, 72, 105>>,
    \* JSR #2; HALT; -; ADD R1,R1,#-1; RET
    <<18434, 61477, 0, 4735, 49600>>,
    \* JSR #2; HALT; -; ADD R7,R7,#1; RET
    <<18434, 61477, 0, 8161, 49600>>,
    \* LEA R2,#2; JSRR R2; HALT; RET
    <<58370, 16512, 61477, 49600>>,
    \* R1 = 0xFFFF; LD R2,#2; STR R2,R1,#0; JMP R1; data: JSR #-1, run at 0xFFFF
    <<4735, 9218, 29760, 49216, 20479>>,
    \* the same with LEA R0,#-1 at 0xFFFF
    <<4735, 9218, 29760, 49216, 57855>>,
    \* ADD R0,R0,#3; TRAP 0x1F; TRAP 0x26; TRAP 0x00; HALT
    <<4131, 61471, 61478, 61440, 61477>>,
    \* ADD R7,R7,#-1 (R7 = 0xFFFF); JSRR R7; HALT
    <<8191, 16832, 61477>>,
    \* JSR #0 (R7 = 0x3001); JSRR R7 with its unused bits set (0x41FF); HALT
    <<18432, 16895, 61477>>,
    \* R1 = 0xFFFF; LD R2,#2; STR R2,R1,#0; JMP R1; data: JSRR R7, run at 0xFFFF
    <<4735, 9218, 29760, 49216, 16832>>
  }

\* Programs that read the keyboard.
KbdPrograms ==
  { <<61472, 61477>>,                 \* GETC; HALT
    <<61475, 61477>>,                 \* IN; HALT
    <<41473, 61477, 65024>>,          \* LDI R1,#1; HALT; pointer to KBSR
    <<41473, 61477, 65026>>,          \* LDI R1,#1; HALT; pointer to KBDR
    <<41474, 2046, 61477, 65024>>,    \* LDI R1,#2; BRzp #-2 (poll KBSR); HALT
    <<8705, 49216, 65024>>,           \* LD R1,#1; JMP R1; data 0xFE00: fetch at KBSR
    <<8705, 24640, 65024>>,           \* LD R1,#1; LDR R0,R1,#0; data 0xFE00
    <<45057, 61477, 65024>>,          \* STI R0,#1; HALT; pointer to KBSR
    <<8706, 24640, 49216, 65024>>,    \* LD R1,#2; LDR R0,R1,#0; JMP R1; data 0xFE00
    <<61478, 61472, 61477>>           \* TRAP 0x26; GETC; HALT
  }

\* Keys of the host: space, a, q, y.
Keys == {32, 97, 113, 121}

KeyScripts == SeqsUpTo(Keys, MaxKeys)

\* Object files for the loader: origins at the start address, just below it
\* and at the last cell; any payload of a few words; a residual byte or none.
Origins == {12288, 12287, 65535}
DataWords == {0, 4660, 61477, 255}
Tails == {<<>>, <<171>>}

LoaderImages ==
  {Obj(o, ws) \o tl : o \in Origins, ws \in SeqsUpTo(DataWords, MaxImageWords), tl \in Tails}
  \cup {<<>>, <<48>>}

Inputs ==
  ({Obj(PC_START, p) : p \in ShortPrograms \cup ScenarioPrograms} \X {<<>>})
  \cup (LoaderImages \X {<<>>})
  \cup ({Obj(PC_START, p) : p \in KbdPrograms} \X KeyScripts)

(* ------------------------------ state machine --------------------------- *)

\* The machine as the handlers see it.
Machine ==
  [memory |-> memory, registers |-> registers, running |-> running,
   kbd |-> kbd, out |-> out, proc |-> proc]

\* No signExtend call under observation.
NoCall == [bitCount |-> 0, v |-> 0, result |-> 0, done |-> FALSE]

\* A boot that starts with the Z flag, as LC-3 machines do.
BootRegistersZro ==
  [r \in 0 .. (R_COUNT - 1) |-> IF r = R_PC THEN PC_START ELSE IF r = R_COND THEN FL_ZRO ELSE 0]

BootRegisters == [r \in 0 .. (R_COUNT - 1) |-> IF r = R_PC THEN PC_START ELSE 0]

Init ==
  /\ \E in \in Inputs : image = in[1] /\ kbd = in[2]
  /\ memory = EmptyMemory
  /\ registers = BootRegisters
  /\ running = 1
  /\ out = <<>>
  /\ proc = "load"
  /\ steps = 0
  /\ lastInstr = undefined
  /\ lastPC = undefined
  /\ link = undefined
  /\ flagged = FALSE
  /\ sx = NoCall

\* main, up to the loop: readImage of the object file.
Load ==
  /\ proc = "load"
  /\ LET s == readImage(Machine, image) IN
       /\ memory' = s.memory
       /\ proc' = s.proc
  /\ UNCHANGED <<image, kbd, registers, running, out, steps, lastInstr, lastPC, link, flagged, sx>>

\* main: one iteration of the while loop and the loop test after it.  steps,
\* lastInstr and lastPC record the iteration; link is the address after the
\* last JSR/JSRR while R7 has not changed since; flagged tells that an
\* instruction that sets the flags has been dispatched.
Step ==
  /\ proc = "loop"
  /\ steps < MaxSteps
  /\ LET r == iteration(Machine) IN
       /\ memory' = r.s.memory
       /\ registers' = r.s.registers
       /\ running' = r.s.running
       /\ kbd' = r.s.kbd
       /\ out' = r.s.out
       /\ proc' = r.s.proc
       /\ lastInstr' = r.instr
       /\ link' = IF r.instr # undefined /\ r.instr \div 4096 = OP_JSR
                  THEN (registers[R_PC] + 1) % MEMORY_SIZE
                  ELSE IF r.s.registers[R_R7] # registers[R_R7] THEN undefined
                  ELSE link
       /\ flagged' = (flagged \/ (r.instr # undefined /\
                         r.instr \div 4096 \in {OP_ADD, OP_AND, OP_NOT, OP_LD, OP_LDI, OP_LDR, OP_LEA}))
  /\ lastPC' = registers[R_PC]
  /\ steps' = steps + 1
  /\ UNCHANGED <<image, sx>>

Next == Load \/ Step

Spec == Init /\ [][Next]_vars

(* ------------------------- reading the claims --------------------------- *)

\* Bit fields and signed values by arithmetic, for stating the properties.
Op(i) == i \div 4096
Field(i, lo, n) == (i \div Pow2(lo)) % Pow2(n)
Signed(f, n) == IF f >= Pow2(n - 1) THEN f - Pow2(n) ELSE f
Wrap(x) == x % MEMORY_SIZE

\* The last step fetched an instruction word / returned to the loop test.
Fetched == lastInstr # undefined
Completed == proc \in {"loop", "done"}
IsStep == steps' = steps + 1
FetchedNext == lastInstr' # undefined

FlagOps == {OP_ADD, OP_AND, OP_NOT, OP_LD, OP_LDI, OP_LDR, OP_LEA}
FlagOf(v) == IF v = 0 THEN FL_ZRO ELSE IF v >= SIGN_BIT THEN FL_NEG ELSE FL_POS

(* C1: COND is always one of 0, 1, 2, 4, and after a completed step that    *)
(* executed ADD, AND, NOT, LD, LDI, LDR or LEA it is ZRO when the           *)
(* destination register holds 0, NEG when its bit 15 is set, POS otherwise. *)
C1_FlagTotality ==
  /\ registers[R_COND] \in {0, 1, 2, 4}
  /\ (Fetched /\ Completed /\ Op(lastInstr) \in FlagOps)
       => /\ registers[R_COND] \in {FL_POS, FL_ZRO, FL_NEG}
          /\ registers[R_COND] = FlagOf(registers[Field(lastInstr, 9, 3)])

\* AND R1,R2,#-1 left 0 in R1 and ZRO in COND.
C1_Witness ==
  /\ proc = "loop" /\ lastInstr = 21183
  /\ registers[1] = 0 /\ registers[R_COND] = FL_ZRO

(* C2: a step that executes TRAP 0x25 clears running and ends the process   *)
(* with exit code 0; with running cleared no further step is taken.         *)
C2_HaltTerminates ==
  [][ /\ (IsStep /\ FetchedNext /\ Op(lastInstr') = OP_TRAP
            /\ Field(lastInstr', 0, 8) = TRAP_HALT)
         => (running' = 0 /\ proc' = "done" /\ ExitCode(proc') = 0)
      /\ running # 0
    ]_vars

\* HALT executed as the third instruction of a program.
C2_Witness ==
  /\ proc = "done" /\ running = 0 /\ steps = 3
  /\ Op(lastInstr) = OP_TRAP /\ Field(lastInstr, 0, 8) = TRAP_HALT

(* C3: a step that fetches a word with opcode 8 (RTI) or 13 (RES) ends the  *)
(* process with a nonzero exit code, having changed nothing but PC (and the *)
(* keyboard latch of the fetch); an aborted process takes no further step.  *)
C3_ReservedAborts ==
  [][ /\ (IsStep /\ FetchedNext /\ Op(lastInstr') \in {OP_RTI, OP_RES})
         => /\ proc' = "abort" /\ ExitCode(proc') # 0
            /\ registers' = [registers EXCEPT ![R_PC] = Wrap(registers[R_PC] + 1)]
            /\ out' = out /\ running' = running
            /\ \A a \in (DOMAIN memory \cup DOMAIN memory') \ {MR_KBSR, MR_KBDR} :
                 MemGet(memory', a) = MemGet(memory, a)
            /\ (registers[R_PC] # MR_KBSR => (memory' = memory /\ kbd' = kbd))
      /\ proc # "abort"
    ]_vars

\* RES executed as the second instruction of a program.
C3_Witness == proc = "abort" /\ Op(lastInstr) = OP_RES /\ steps = 2

\* The step read the host keyboard: a fetch or a load through KBSR, GETC, IN.
ReadsKeyboard ==
  \/ ~FetchedNext
  \/ Op(lastInstr') \in {OP_LD, OP_LDI, OP_LDR, OP_STI}
  \/ (Op(lastInstr') = OP_TRAP /\ Field(lastInstr', 0, 8) \in {TRAP_GETC, TRAP_IN})

\* The keys the step consumed end with q (or Q) answered by y (or Y).
QuitKeys ==
  LET n == Len(kbd) - Len(kbd') IN
    /\ n >= 2
    /\ kbd[n - 1] \in {113, 81}
    /\ kbd[n] \in {121, 89}
    /\ kbd' = SubSeq(kbd, n + 1, Len(kbd))

IsHalt(i) == Op(i) = OP_TRAP /\ Field(i, 0, 8) = TRAP_HALT

C5_AddressWraps ==
  [][ (IsStep /\ FetchedNext /\ proc' \in {"loop", "done"} /\ kbd' = kbd)
        => LET i == lastInstr'
               dr == Field(i, 9, 3)
               pcAddr == Wrap(Wrap(registers[R_PC] + 1) + Signed(Field(i, 0, 9), 9))
               baseAddr == Wrap(registers[Field(i, 6, 3)] + Signed(Field(i, 0, 6), 6))
           IN /\ (Op(i) = OP_LD) => registers'[dr] = MemGet(memory, pcAddr)
              /\ (Op(i) = OP_LDR) => registers'[dr] = MemGet(memory, baseAddr)
              /\ (Op(i) = OP_LDI)
                   => registers'[dr] = MemGet(memory, MemGet(memory, pcAddr))
              /\ (Op(i) = OP_ST) => MemGet(memory', pcAddr) = registers[dr]
              /\ (Op(i) = OP_STR) => MemGet(memory', baseAddr) = registers[dr]
              /\ (Op(i) = OP_STI)
                   => MemGet(memory', MemGet(memory, pcAddr)) = registers[dr]
    ]_vars

(* ---------------------- signExtend as a pure function ------------------- *)

SextWidths == {5, 6, 9, 11}

\* The 16-bit words whose bits n..15 all equal bit n-1.
SextWords(n) ==
  {v \in 0 .. (MEMORY_SIZE - 1) : \A b \in n .. 15 : Field(v, b, 1) = Field(v, n - 1, 1)}

SextInit ==
  /\ \E n \in SextWidths : \E v \in SextWords(n) :
       sx = [bitCount |-> n, v |-> v, result |-> 0, done |-> FALSE]
  /\ image = <<>> /\ kbd = <<>>
  /\ memory = EmptyMemory
  /\ registers = BootRegisters
  /\ running = 1
  /\ out = <<>>
  /\ proc = "load"
  /\ steps = 0
  /\ lastInstr = undefined
  /\ lastPC = undefined
  /\ link = undefined
  /\ flagged = FALSE

\* signExtend(v & ((1 << n) - 1), n)
SextApply ==
  /\ ~sx.done
  /\ sx' = [sx EXCEPT !.result = signExtend(BitAnd(sx.v, Pow2(sx.bitCount) - 1), sx.bitCount),
                      !.done = TRUE]
  /\ UNCHANGED <<image, kbd, memory, registers, running, out, proc, steps, lastInstr, lastPC, link, flagged>>

SextSpec == SextInit /\ [][SextApply]_vars

(* C6 as stated: for N in {5, 6, 9, 11} and a 16-bit word v whose bits      *)
(* N..15 equal bit N-1, signExtend(v & (2^N - 1), N) returns v.             *)
C6_SignExtendRoundTrip == sx.done => sx.result = sx.v

(* ------------------------------ the loader ------------------------------ *)

\* The object file as the format describes it: origin, words w_0 .. w_k.
ImgOrigin == image[1] * 256 + image[2]
ImgWord(i) == image[2 * i + 3] * 256 + image[2 * i + 4]
Loaded == steps = 0 /\ proc # "load"

\* Cells O .. O+n-1 hold the first n words, every other cell holds 0.
HoldsWords(n) ==
  /\ \A i \in 0 .. (n - 1) :
       IsIndex(ImgOrigin + i) => MemGet(memory, ImgOrigin + i) = ImgWord(i)
  /\ \A a \in DOMAIN memory :
       MemGet(memory, a) # 0 => a \in ImgOrigin .. (ImgOrigin + n - 1)

C8_OddTailIgnored ==
  (Loaded /\ Len(image) >= 3 /\ Len(image) % 2 = 1)
    => /\ proc = "loop"
       /\ HoldsWords((Len(image) - 3) \div 2)

(* ----------------------------- the keyboard ----------------------------- *)

\* m2 is m1 but for the cells of S.
SameBut(m1, m2, S) ==
  \A a \in (DOMAIN m1 \cup DOMAIN m2) \ S : MemGet(m1, a) = MemGet(m2, a)

\* Registers unchanged but for PC, COND and the register d.
RegsSameBut(d) ==
  \A r \in 0 .. 7 : r # d => registers'[r] = registers[r]

\* What one memRead(KBSR) of the step does with the keys of the host; ret is
\* the value the read returned.
Latched(ret) ==
  IF kbd = <<>> THEN proc' = "blocked" /\ memory' = memory
  ELSE IF kbd[1] \in {113, 81} /\ Len(kbd) = 1
       THEN proc' = "blocked" /\ memory' = memory /\ kbd' = <<>>
  ELSE IF kbd[1] \in {113, 81} /\ kbd[2] \in {121, 89}
       THEN proc' = "quit" /\ memory' = memory /\ kbd' = SubSeq(kbd, 3, Len(kbd))
  ELSE /\ proc' \in {"loop", "done", "abort"}
       /\ kbd' = SubSeq(kbd, (IF kbd[1] \in {113, 81} THEN 3 ELSE 2), Len(kbd))
       /\ IF kbd[1] \in {9, 10, 13, 32}
          THEN /\ MemGet(memory', MR_KBSR) = 0
               /\ SameBut(memory, memory', {MR_KBSR})
               /\ ret = 0
          ELSE /\ MemGet(memory', MR_KBSR) = 32768
               /\ MemGet(memory', MR_KBDR) = kbd[1]
               /\ SameBut(memory, memory', {MR_KBSR, MR_KBDR})
               /\ ret = 32768

\* A read of an address other than KBSR by a load into register d.
PureRead(d, value) ==
  /\ memory' = memory /\ kbd' = kbd /\ out' = out
  /\ proc' = "loop"
  /\ RegsSameBut(d)
  /\ registers'[d] = value

\* The address LD (pc-relative) or LDR (base register) hands to memRead.
LoadAddress(i) ==
  IF Op(i) = OP_LD THEN Wrap(registers[R_PC] + 1) + Signed(Field(i, 0, 9), 9)
  ELSE registers[Field(i, 6, 3)] + Signed(Field(i, 0, 6), 6)

C10_KbsrProbeNonBlocking ==
  [][ (IsStep /\ kbd = <<>> /\ ~(FetchedNext /\ Op(lastInstr') = OP_TRAP))
        => proc' # "blocked"
    ]_vars

(* ------------------------------ indirection ----------------------------- *)

(* C11 as stated, on steps that take no key from the host: with             *)
(* P = (PC + sext(offset9)) mod 2^16 (PC already incremented) and T = M[P], *)
(* LDI sets DR to M[T] and changes no memory cell; STI sets M[T] to the     *)
(* source register and changes no other memory cell and no register but PC. *)
C11_Indirection ==
  [][ (IsStep /\ FetchedNext /\ proc' = "loop" /\ kbd' = kbd
         /\ registers[R_PC] # MR_KBSR)
        => LET i == lastInstr'
               r == Field(i, 9, 3)
               P == Wrap(Wrap(registers[R_PC] + 1) + Signed(Field(i, 0, 9), 9))
               T == MemGet(memory, P)
           IN /\ (Op(i) = OP_LDI /\ P # MR_KBSR /\ T # MR_KBSR)
                   => /\ registers'[r] = MemGet(memory, T)
                      /\ memory' = memory
              /\ (Op(i) = OP_STI /\ P # MR_KBSR)
                   => /\ MemGet(memory', T) = registers[r]
                      /\ SameBut(memory, memory', {T})
                      /\ registers' = [registers EXCEPT ![R_PC] = Wrap(registers[R_PC] + 1)]
    ]_vars

(* ------------------------------ the ALU --------------------------------- *)

\* The bitwise and of two 16-bit words, bit by bit.
RECURSIVE WordAnd(_, _, _)
WordAnd(a, b, k) ==
  IF k = 16 THEN 0
  ELSE Field(a, k, 1) * Field(b, k, 1) * Pow2(k) + WordAnd(a, b, k + 1)

\* The second operand of ADD and AND: the immediate as a 16-bit word when
\* bit 5 is set, the register of bits [2:0] otherwise.
Operand(i) ==
  IF Field(i, 5, 1) = 1 THEN Wrap(Signed(Field(i, 0, 5), 5))
  ELSE registers[Field(i, 0, 3)]

(* C12: a step that executes ADD leaves DR = (R[SR1] + operand) mod 2^16,   *)
(* AND leaves DR = R[SR1] and operand bit by bit, NOT leaves DR = the       *)
(* 16-bit complement of R[SR1], the sources being read before DR is         *)
(* written; every register is a word in 0 .. 0xFFFF.                        *)
C12_AluResults ==
  [][ /\ \A r \in 0 .. (R_COUNT - 1) : registers'[r] \in 0 .. 65535
      /\ (IsStep /\ FetchedNext /\ Op(lastInstr') \in {OP_ADD, OP_AND, OP_NOT})
           => LET i == lastInstr'
                  dr == Field(i, 9, 3)
                  sr1 == Field(i, 6, 3)
              IN /\ proc' = "loop"
                 /\ (Op(i) = OP_ADD)
                       => registers'[dr] = Wrap(registers[sr1] + Operand(i))
                 /\ (Op(i) = OP_AND)
                       => registers'[dr] = WordAnd(registers[sr1], Operand(i), 0)
                 /\ (Op(i) = OP_NOT) => registers'[dr] = 65535 - registers[sr1]
    ]_vars

\* ADD R1,R1,#-1 from 0 gave 0xFFFF.
C12_Witness ==
  /\ steps = 1 /\ lastInstr = 4735 /\ proc = "loop"
  /\ registers[1] = 65535

(* ------------------------------ control flow ---------------------------- *)

\* The BR fetched by the step is taken: nzp and COND have a common bit.
Taken == WordAnd(Field(lastInstr', 9, 3), registers[R_COND], 0) # 0

\* The registers after a BR fetched at the current PC.
AfterBranch ==
  [registers EXCEPT ![R_PC] =
     IF Taken THEN Wrap(registers[R_PC] + 1 + Signed(Field(lastInstr', 0, 9), 9))
     ELSE Wrap(registers[R_PC] + 1)]

(* C13 as stated: a BR fetched at A leaves PC = (A + 1 + sext(bits[8:0]))   *)
(* mod 2^16 when nzp and COND have a common bit, else (A + 1) mod 2^16, and *)
(* changes no other register and no memory cell.                            *)
C13_BranchFrame ==
  [][ (IsStep /\ FetchedNext /\ Op(lastInstr') = OP_BR)
        => /\ registers' = AfterBranch
           /\ memory' = memory
    ]_vars

(* C13 amended: as stated, except that when A = 0xFE00 the fetch is itself  *)
(* a keyboard-status read: it takes a key from the host and stores the      *)
(* status word at 0xFE00 (the BR word fetched there is 0x0000, after a      *)
(* whitespace key); no other memory cell changes.                           *)
C13_Branch ==
  [][ (IsStep /\ FetchedNext /\ Op(lastInstr') = OP_BR)
        => /\ proc' = "loop"
           /\ registers' = AfterBranch
           /\ out' = out /\ running' = running
           /\ IF registers[R_PC] = MR_KBSR
              THEN /\ lastInstr' = 0 /\ MemGet(memory', MR_KBSR) = 0
                   /\ SameBut(memory, memory', {MR_KBSR})
                   /\ kbd # <<>> /\ kbd[1] \in {9, 10, 13, 32}
              ELSE memory' = memory /\ kbd' = kbd
    ]_vars

\* BRn #1 taken after NOT left a negative value: PC skipped one word.
C13_Witness ==
  /\ steps = 3 /\ lastInstr = 2049 /\ lastPC = 12290
  /\ registers[R_COND] = FL_NEG /\ registers[R_PC] = 12292

(* C14: a step that executes an opcode other than ADD, AND, NOT, LD, LDI,   *)
(* LDR, LEA (BR, ST, STR, STI, JSR/JSRR, JMP, any TRAP vector, and the      *)
(* reserved opcodes) leaves COND as it was before the step.                 *)
C14_CondFrame ==
  [][ (IsStep /\ FetchedNext /\ Op(lastInstr') \notin FlagOps)
        => registers'[R_COND] = registers[R_COND]
    ]_vars

\* JSR #1 after ADD R0,R0,#3: the link is stored, COND is still POS.
C14_Witness ==
  /\ steps = 2 /\ lastInstr = 18433 /\ proc = "loop"
  /\ registers[R_R7] = 12290 /\ registers[R_COND] = FL_POS

(* --------------------------------- traps -------------------------------- *)

IsTrap(i) == i # undefined /\ Op(i) = OP_TRAP

(* C15: a step that executes a TRAP fetched at A, whatever its vector,      *)
(* leaves R7 unchanged and PC = (A + 1) mod 2^16; after HALT no step        *)
(* follows, after any other trap the next fetch is at (A + 1) mod 2^16.     *)
C15_TrapReturn ==
  [][ IsStep =>
        /\ (FetchedNext /\ IsTrap(lastInstr'))
             => /\ registers'[R_R7] = registers[R_R7]
                /\ registers'[R_PC] = Wrap(registers[R_PC] + 1)
                /\ (IsHalt(lastInstr') => proc' = "done")
        /\ IsTrap(lastInstr)
             => /\ ~IsHalt(lastInstr)
                /\ lastPC' = Wrap(lastPC + 1)
    ]_vars

\* HALT fetched right after the OUT at 0x3001, R7 still the link of the JSR.
C15_Witness ==
  /\ steps = 3 /\ lastPC = 12290 /\ IsHalt(lastInstr)
  /\ registers[R_R7] = 12289 /\ out = <<0, 72, 65, 76, 84, 10>>

\* The low bytes of the words from address a up to the first zero word, the
\* address advancing modulo 2^16.
RECURSIVE StringAt(_)
StringAt(a) ==
  IF MemGet(memory, a) = 0 THEN <<>>
  ELSE <<MemGet(memory, a) % 256>> \o StringAt(Wrap(a + 1))

(* C16 as stated: PUTS appends to the host output the low 8 bits of each    *)
(* word from address R0 up to the first zero word, in order, then returns   *)
(* to the loop; it changes no register (but PC, by the fetch) and no memory *)
(* cell.                                                                    *)
C16_PutsString ==
  [][ (IsStep /\ FetchedNext /\ IsTrap(lastInstr')
         /\ Field(lastInstr', 0, 8) = TRAP_PUTS)
        => /\ proc' = "loop"
           /\ out' = out \o StringAt(registers[R_R0])
           /\ registers' = [registers EXCEPT ![R_PC] = Wrap(registers[R_PC] + 1)]
           /\ memory' = memory
    ]_vars

(* ---------------------------- call and return --------------------------- *)

(* C17: a JSR or JSRR fetched at A sets R7 = (A + 1) mod 2^16 and PC to     *)
(* (A + 1 + sext(bits[10:0])) mod 2^16 when bit 11 is set, else to the base *)
(* register (read after the link is stored, as the instruction table        *)
(* orders it); while R7 has not changed since, a JMP with base register 7   *)
(* sets PC to (A + 1) mod 2^16.                                             *)
C17_CallReturn ==
  [][ (IsStep /\ FetchedNext)
        => LET i == lastInstr'
               A == registers[R_PC]
               base == Field(i, 6, 3)
           IN /\ (Op(i) = OP_JSR)
                   => /\ proc' = "loop"
                      /\ registers'[R_R7] = Wrap(A + 1)
                      /\ registers'[R_PC] =
                           IF Field(i, 11, 1) = 1
                           THEN Wrap(A + 1 + Signed(Field(i, 0, 11), 11))
                           ELSE IF base = R_R7 THEN Wrap(A + 1)
                           ELSE registers[base]
              /\ (Op(i) = OP_JMP /\ base = R_R7 /\ link # undefined)
                   => /\ proc' = "loop"
                      /\ registers'[R_PC] = link
                      /\ registers'[R_R7] = link
    ]_vars

\* JSR #2 at 0x3000, one instruction at 0x3003, RET at 0x3004: back at 0x3001.
C17_Witness ==
  /\ steps = 3 /\ lastInstr = 49600 /\ lastPC = 12292
  /\ link = 12289 /\ registers[R_PC] = 12289 /\ registers[1] = 65535

(* ------------------------------- the fetch ------------------------------ *)

(* C18: an iteration reads the instruction word at PC and increments PC by  *)
(* 1 modulo 2^16 before the instruction executes: an instruction that does  *)
(* not write PC leaves PC = (A + 1) mod 2^16, and an LEA fetched at A       *)
(* leaves DR = (A + 1 + sext(bits[8:0], 9)) mod 2^16 with the flags set     *)
(* from that value.                                                         *)
C18_FetchIncrement ==
  [][ (IsStep /\ FetchedNext)
        => LET i == lastInstr'
               A == registers[R_PC]
               ea == Wrap(A + 1 + Signed(Field(i, 0, 9), 9))
           IN /\ i = IF A = MR_KBSR THEN MemGet(memory', A) ELSE MemGet(memory, A)
              /\ (Op(i) \notin {OP_BR, OP_JMP, OP_JSR})
                   => registers'[R_PC] = Wrap(A + 1)
              /\ (Op(i) = OP_LEA)
                   => /\ proc' = "loop"
                      /\ registers'[Field(i, 9, 3)] = ea
                      /\ registers'[R_COND] = FlagOf(ea)
                      /\ memory' = memory
    ]_vars

\* LEA R0,#-1 fetched at 0x3000 left its own address in R0.
C18_Witness ==
  /\ steps = 1 /\ lastInstr = 57855 /\ lastPC = 12288
  /\ registers[R_R0] = 12288 /\ registers[R_COND] = FL_POS
  /\ registers[R_PC] = 12289

(* C19: from boot until the first step that executes ADD, AND, NOT, LD,     *)
(* LDI, LDR or LEA, COND is 0 and no BR is taken, whatever its n, z, p      *)
(* bits: each BR fetched at A in that prefix leaves PC = (A + 1) mod 2^16.  *)
C19_NoBranchBeforeFlags ==
  [][ (IsStep /\ ~flagged)
        => /\ registers[R_COND] = 0
           /\ (FetchedNext /\ Op(lastInstr') = OP_BR)
                => /\ proc' = "loop"
                   /\ registers'[R_PC] = Wrap(registers[R_PC] + 1)
    ]_vars

\* BRnzp #1 as the first instruction after boot: not taken.
C19_Witness ==
  /\ steps = 1 /\ lastInstr = 3585 /\ ~flagged
  /\ registers[R_COND] = 0 /\ registers[R_PC] = 12289

\* The TRAP vectors the handler knows.
KnownVectors == {32, 33, 34, 35, 36, 37}

(* C20: a TRAP whose vector is not one of 0x20 .. 0x25 does nothing: the    *)
(* step changes PC by the fetch only, no other register, no memory cell,    *)
(* not the running flag, writes no output, takes no key, and the loop goes  *)
(* on with the instruction after it.                                        *)
C20_UnknownTrapNoOp ==
  [][ IsStep =>
        /\ (FetchedNext /\ IsTrap(lastInstr')
              /\ Field(lastInstr', 0, 8) \notin KnownVectors)
             => /\ proc' = "loop"
                /\ registers' = [registers EXCEPT ![R_PC] = Wrap(registers[R_PC] + 1)]
                /\ memory' = memory
                /\ running' = running /\ running' = 1
                /\ out' = out
                /\ kbd' = kbd
        /\ (IsTrap(lastInstr) /\ Field(lastInstr, 0, 8) \notin KnownVectors)
             => lastPC' = Wrap(lastPC + 1)
    ]_vars

\* TRAP 0x26 with two keys waiting: nothing taken, nothing written; then GETC.
C20_Witness ==
  /\ steps = 1 /\ lastInstr = 61478 /\ proc = "loop"
  /\ kbd = <<97, 121>> /\ out = <<>> /\ registers[R_PC] = 12289

(* C21: a JSRR (opcode 4, bit 11 clear) with base register R7 fetched at A  *)
(* ends with PC = (A + 1) mod 2^16 and R7 = (A + 1) mod 2^16 whatever R7    *)
(* held before: the link is stored before the base register is read.       *)
C21_JsrrR7 ==
  [][ (IsStep /\ FetchedNext /\ Op(lastInstr') = OP_JSR
         /\ Field(lastInstr', 11, 1) = 0 /\ Field(lastInstr', 6, 3) = R_R7)
        => /\ proc' = "loop"
           /\ registers'[R_PC] = Wrap(registers[R_PC] + 1)
           /\ registers'[R_R7] = Wrap(registers[R_PC] + 1)
           /\ \A r \in 0 .. (R_COUNT - 1) :
                r \notin {R_R7, R_PC} => registers'[r] = registers[r]
           /\ memory' = memory
    ]_vars

\* R7 held 0xFFFF (ADD R7,R7,#-1 at 0x3000) when JSRR R7 ran at 0x3001.
C21_Witness ==
  /\ steps = 2 /\ lastInstr = 16832 /\ lastPC = 12289
  /\ MemGet(memory, 12288) = 8191 /\ registers[R_COND] = FL_NEG
  /\ registers[R_PC] = 12290 /\ registers[R_R7] = 12290

====
